---- MODULE Spec2Model ----
(***************************************************************************)
(* TeacherRankingSection (src/src/components/TeacherRankingSection.tsx):   *)
(* the component's state, its loader (loadStudents), its filter/sort       *)
(* pipeline (applyFiltersAndSort) and its two change callbacks.            *)
(*                                                                         *)
(* Representation.                                                         *)
(*  - A JavaScript string that is compared or case-converted (name,        *)
(*    admission_id, the name filters) is the sequence of its UTF-16 code   *)
(*    units; class-section labels, sort keys and field names are only      *)
(*    tested for equality and are TLA+ strings ("" is the empty string).   *)
(*  - An optional value (a filter field, a fetched percentage) is a set:   *)
(*    {} is undefined / null / absent, {v} is the value v.                 *)
(*  - A student record carries the fields the component reads; class_name  *)
(*    and section are copied by the spread and never read, and are left    *)
(*    out.                                                                 *)
(*  - A handler's setState calls are committed in one step.  The effect of *)
(*    lines 46-48 runs after a commit that installed a new students,       *)
(*    sortConfig or filters object: until it has run (effectPending) the   *)
(*    component shows the view of the earlier run.  React runs a pending   *)
(*    effect before it handles an event of the widget; a prop change or a  *)
(*    query resolution may come first.                                     *)
(***************************************************************************)
EXTENDS Integers, Sequences, FiniteSets

VARIABLES
    teacherClassSections, \* the prop (line 20)
    students,             \* useState, line 27
    filteredStudents,     \* useState, line 28
    loading,              \* useState, line 29
    sortConfig,           \* useState, lines 30-33
    filters,              \* useState, lines 34-40
    inflight,             \* the queries awaited at line 58 and not yet resolved
    fetchCount,           \* number of queries issued so far
    toasts,               \* number of toast.error calls so far (line 74)
    effectPending,        \* the effect of lines 46-48 is due and has not run
    last                  \* history: the operation that ran last

vars == <<teacherClassSections, students, filteredStudents, loading, sortConfig,
          filters, inflight, fetchCount, toasts, effectPending, last>>

\* Total number of queries the model lets the loader issue.
MaxFetches == 2

(***************************************************************************)
(* Strings                                                                 *)
(***************************************************************************)

\* String.prototype.toUpperCase / toLowerCase on one ASCII code unit.
upperChar(c) == IF c >= 97 /\ c <= 122 THEN c - 32 ELSE c

lowerChar(c) == IF c >= 65 /\ c <= 90 THEN c + 32 ELSE c

toUpperCase(s) == [i \in 1..Len(s) |-> upperChar(s[i])]

toLowerCase(s) == [i \in 1..Len(s) |-> lowerChar(s[i])]

\* String.prototype.startsWith / endsWith (exact, case-sensitive).
startsWith(s, p) == Len(p) <= Len(s) /\ SubSeq(s, 1, Len(p)) = p

endsWith(s, p) == Len(p) <= Len(s) /\ SubSeq(s, Len(s) - Len(p) + 1, Len(s)) = p

\* The < of two JavaScript strings: code unit by code unit, a proper prefix first.
RECURSIVE strLess(_, _)
strLess(a, b) ==
    IF b = <<>> THEN FALSE
    ELSE IF a = <<>> THEN TRUE
    ELSE IF Head(a) # Head(b) THEN Head(a) < Head(b)
    ELSE strLess(Tail(a), Tail(b))

(***************************************************************************)
(* The external store: the rows of table "students" the model draws        *)
(* responses from, in the order the query asks for (latest_percentage      *)
(* descending, a null percentage first).  Names: "alma", "Alice", "Cara",  *)
(* "bob"; admission ids: "s4", "S3", "S2", "s1".                           *)
(***************************************************************************)
StudentsTable ==
    << [id |-> 4, admission_id |-> <<115, 52>>, name |-> <<97, 108, 109, 97>>,
        class_section |-> "10-B", latest_percentage |-> {}],
       [id |-> 1, admission_id |-> <<83, 51>>, name |-> <<65, 108, 105, 99, 101>>,
        class_section |-> "10-A", latest_percentage |-> {92}],
       [id |-> 3, admission_id |-> <<83, 50>>, name |-> <<67, 97, 114, 97>>,
        class_section |-> "10-A", latest_percentage |-> {92}],
       [id |-> 2, admission_id |-> <<115, 49>>, name |-> <<98, 111, 98>>,
        class_section |-> "10-B", latest_percentage |-> {60}] >>

\* The values the teacherClassSections prop takes.
SectionLists == { <<>>, <<"10-A">>, <<"10-A", "10-B">> }

Range(s) == { s[i] : i \in 1..Len(s) }

\* The contents the table has when a query of the loader's specification
\* runs: the rows above, or none.
Tables == { StudentsTable, <<>> }

\* .from('students').select('*').in('class_section', sections).order(...): the
\* rows of the table, as it stands when the query runs, whose class_section is
\* in the list, in the table's order.
Responses(sections) ==
    { SelectSeq(t, LAMBDA r : r.class_section \in Range(sections)) : t \in Tables }

\* Every content the table can have: the sub-sequences of the rows above.
AllTables ==
    { SelectSeq(StudentsTable, LAMBDA r : r \in S) : S \in SUBSET Range(StudentsTable) }

(***************************************************************************)
(* loadStudents, lines 66-71: the coercion of a response                   *)
(***************************************************************************)

\* Variant: the default of the coercion is 100 instead of 0.
coercePercentageDefault100(p) == IF p = {} \/ p = {0} THEN 100 ELSE CHOOSE n \in p : TRUE

\* s.latest_percentage || 0 on a fetched value: absent, null and 0 are falsy.
coercePercentage(p) == IF p = {} \/ p = {0} THEN 0 ELSE CHOOSE n \in p : TRUE

\* data.map(s => ({...s, latest_percentage: s.latest_percentage || 0}))
mapFetched(data) ==
    [i \in 1..Len(data) |->
        [data[i] EXCEPT !.latest_percentage = coercePercentage(@)]]

(***************************************************************************)
(* applyFiltersAndSort, lines 80-134                                       *)
(***************************************************************************)

\* Truthiness of an optional string: undefined and the empty string are falsy
\* (a class-section label; a string of code units).
truthyLabel(opt) == opt # {} /\ opt # {""}

truthy(opt) == opt # {} /\ opt # {<<>>}

valueOf(opt) == CHOOSE v \in opt : TRUE

\* lines 83-85
filterClassSection(list, f) ==
    IF truthyLabel(f.classSection)
    THEN SelectSeq(list, LAMBDA s : s.class_section = valueOf(f.classSection))
    ELSE list

\* Variant: the lower bound is exclusive (> instead of >=).
filterPercentageMinExclusive(list, f) ==
    IF f.percentageMin # {}
    THEN SelectSeq(list, LAMBDA s : s.latest_percentage > valueOf(f.percentageMin))
    ELSE list

\* lines 87-89
filterPercentageMin(list, f) ==
    IF f.percentageMin # {}
    THEN SelectSeq(list, LAMBDA s : s.latest_percentage >= valueOf(f.percentageMin))
    ELSE list

\* lines 91-93
filterPercentageMax(list, f) ==
    IF f.percentageMax # {}
    THEN SelectSeq(list, LAMBDA s : s.latest_percentage <= valueOf(f.percentageMax))
    ELSE list

\* Variant: the name is compared as it is, without toUpperCase.
filterNameStartsWithCaseSensitive(list, f) ==
    IF truthy(f.nameStartsWith)
    THEN SelectSeq(list, LAMBDA s : startsWith(s.name, valueOf(f.nameStartsWith)))
    ELSE list

\* lines 95-99
filterNameStartsWith(list, f) ==
    IF truthy(f.nameStartsWith)
    THEN SelectSeq(list, LAMBDA s : startsWith(toUpperCase(s.name), valueOf(f.nameStartsWith)))
    ELSE list

\* lines 101-105
filterNameEndsWith(list, f) ==
    IF truthy(f.nameEndsWith)
    THEN SelectSeq(list, LAMBDA s : endsWith(toUpperCase(s.name), valueOf(f.nameEndsWith)))
    ELSE list

\* Variant: the string keys are compared without toLowerCase.
sortValueRaw(s, by) ==
    CASE by = "name" -> s.name
      [] by = "admission_id" -> s.admission_id
      [] by = "latest_percentage" -> s.latest_percentage
      [] OTHER -> s.latest_percentage

\* lines 110-126: the value the comparator reads from a record.  x || '' and
\* x || 0 leave a present string and a number as they are.
sortValue(s, by) ==
    CASE by = "name" -> toLowerCase(s.name)
      [] by = "admission_id" -> toLowerCase(s.admission_id)
      [] by = "latest_percentage" -> s.latest_percentage
      [] OTHER -> s.latest_percentage

\* aVal < bVal: on two strings for the string keys, on two numbers otherwise.
valLess(x, y, by) ==
    IF by \in {"name", "admission_id"} THEN strLess(x, y) ELSE x < y

\* lines 107-131: the comparator handed to Array.prototype.sort
compareStudents(a, b, sc) ==
    LET aVal == sortValue(a, sc.by)
        bVal == sortValue(b, sc.by)
    IN  IF valLess(aVal, bVal, sc.by) THEN (IF sc.order = "asc" THEN -1 ELSE 1)
        ELSE IF valLess(bVal, aVal, sc.by) THEN (IF sc.order = "asc" THEN 1 ELSE -1)
        ELSE 0

\* Array.prototype.sort is stable: x goes before the first element it is
\* strictly less than.
RECURSIVE insertSorted(_, _, _)
insertSorted(t, x, sc) ==
    IF t = <<>> THEN <<x>>
    ELSE IF compareStudents(x, Head(t), sc) < 0 THEN <<x>> \o t
    ELSE <<Head(t)>> \o insertSorted(Tail(t), x, sc)

RECURSIVE sortStudents(_, _)
sortStudents(list, sc) ==
    IF list = <<>> THEN <<>>
    ELSE insertSorted(sortStudents(SubSeq(list, 1, Len(list) - 1), sc),
                      list[Len(list)], sc)

\* lines 80-133: the value handed to setFilteredStudents
applyFiltersAndSort(st, f, sc) ==
    sortStudents(
        filterNameEndsWith(
            filterNameStartsWith(
                filterPercentageMax(
                    filterPercentageMin(
                        filterClassSection(st, f), f), f), f), f), sc)

\* Variant: filters is missing from the effect's dependency list.
effectDueWithoutFilters(changed) == changed \cap {"students", "sortConfig"} # {}

\* line 48: the effect is due after a commit in which a setter of one of its
\* dependencies was called (every such call installs a new object).
effectDue(changed) == changed \cap {"students", "sortConfig", "filters"} # {}

(***************************************************************************)
(* The component                                                           *)
(***************************************************************************)

\* lines 30-33 and 40: the initial sort configuration and filter set
InitialSortConfig == [by |-> "latest_percentage", order |-> "desc"]

InitialFilters ==
    [percentageMin |-> {}, percentageMax |-> {}, nameStartsWith |-> {},
     nameEndsWith |-> {}, classSection |-> {}]

FilterFields == DOMAIN InitialFilters

\* The values the filter widget hands to onFilterChange for a field: undefined
\* (to clear it) or a value.  Name filters: "AL", "al", "A", "a".
FilterValues(field) ==
    CASE field = "classSection" -> { {}, {"10-A"}, {""} }
      [] field = "percentageMin" -> { {}, {60} }
      [] field = "percentageMax" -> { {}, {60}, {0} }
      [] field = "nameStartsWith" -> { {}, {<<65, 76>>}, {<<97, 108>>} }
      [] field = "nameEndsWith" -> { {}, {<<65>>}, {<<97>>} }

\* The keys the widget hands to onSortChange; "rank" is a key the switch of
\* lines 110-126 does not know.
SortKeys == {"name", "admission_id", "latest_percentage", "rank"}

SortOrders == {"asc", "desc"}

\* The part of the widget's inputs that the loader's specification exercises.
LoaderFilterFields == {"classSection", "nameStartsWith"}

LoaderFilterValues(field) ==
    CASE field = "classSection" -> { {}, {"10-A"} }
      [] field = "nameStartsWith" -> { {}, {<<65, 76>>} }

LoaderSortKeys == {"name", "latest_percentage"}

NoEvent == [kind |-> "none", id |-> 0, field |-> "", value |-> {}, data |-> <<>>]

\* A query awaited at line 58.  students0 and view0 are history: the record
\* set and the view when the query was issued.
Pending(id, sections) ==
    [id |-> id, sections |-> sections, students0 |-> students,
     view0 |-> filteredStudents]

\* Mount: both effects have run once.  loadStudents (lines 50-56) either
\* returned at once or is awaiting its query; applyFiltersAndSort ran on [].
Init ==
    /\ teacherClassSections \in SectionLists
    /\ students = <<>>
    /\ filteredStudents = <<>>
    /\ sortConfig = InitialSortConfig
    /\ filters = InitialFilters
    /\ toasts = 0
    /\ IF teacherClassSections = <<>>
       THEN /\ loading = FALSE
            /\ inflight = {}
            /\ fetchCount = 0
            /\ last = [NoEvent EXCEPT !.kind = "empty"]
       ELSE /\ loading = TRUE
            /\ inflight = {[id |-> 1, sections |-> teacherClassSections,
                            students0 |-> <<>>, view0 |-> <<>>]}
            /\ fetchCount = 1
            /\ last = [NoEvent EXCEPT !.kind = "issue", !.id = 1]
    /\ effectPending = FALSE

\* lines 42-44 and 50-54: the prop becomes an empty list; loadStudents clears
\* the loading flag and returns.
LoadEmpty ==
    /\ teacherClassSections' = <<>>
    /\ loading' = FALSE
    /\ last' = [NoEvent EXCEPT !.kind = "empty"]
    /\ UNCHANGED <<students, filteredStudents, sortConfig, filters, inflight,
                   fetchCount, toasts, effectPending>>

\* lines 42-44 and 50-62: the prop becomes a non-empty list; loadStudents sets
\* the loading flag and issues its query.
LoadIssue(sections) ==
    /\ sections # <<>>
    /\ fetchCount < MaxFetches
    /\ teacherClassSections' = sections
    /\ loading' = TRUE
    /\ fetchCount' = fetchCount + 1
    /\ inflight' = inflight \cup {Pending(fetchCount + 1, sections)}
    /\ last' = [NoEvent EXCEPT !.kind = "issue", !.id = fetchCount + 1]
    /\ UNCHANGED <<students, filteredStudents, sortConfig, filters, toasts,
                   effectPending>>

\* Variant: a sequencing guard drops the response of a superseded query.
studentsAfterSuccessSequenced(q, data) ==
    IF q.id = fetchCount THEN mapFetched(data) ELSE students

\* lines 66-71: the record set after query q resolved with data
studentsAfterSuccess(q, data) == mapFetched(data)

\* lines 58-71 and 75-77: query q resolves with data (an array, empty or not,
\* passes the test of line 66) and no error; setStudents
\* and setLoading(false) are committed together, the view is left to the effect.
FetchSucceeds(q, data) ==
    /\ q \in inflight
    /\ data \in Responses(q.sections)
    /\ inflight' = inflight \ {q}
    /\ students' = studentsAfterSuccess(q, data)
    /\ effectPending' = (effectPending \/ effectDue({"students"}))
    /\ loading' = FALSE
    /\ last' = [NoEvent EXCEPT !.kind = "ok", !.id = q.id, !.data = data]
    /\ UNCHANGED <<teacherClassSections, filteredStudents, sortConfig, filters,
                   fetchCount, toasts>>

\* lines 58-66 and 75-77: query q resolves with neither data nor an error; the
\* test of line 66 is false, setStudents is not called, only setLoading(false).
FetchNoData(q) ==
    /\ q \in inflight
    /\ inflight' = inflight \ {q}
    /\ loading' = FALSE
    /\ last' = [NoEvent EXCEPT !.kind = "nodata", !.id = q.id]
    /\ UNCHANGED <<teacherClassSections, students, filteredStudents, sortConfig,
                   filters, fetchCount, toasts, effectPending>>

\* Variant: the catch block also empties the record set.
studentsAfterFailureCleared(q) == <<>>

\* lines 72-77: the record set after query q failed; no setter of it is called
studentsAfterFailure(q) == students

\* lines 64 and 72-77: query q resolves with an error, or throws.
FetchFails(q) ==
    /\ q \in inflight
    /\ inflight' = inflight \ {q}
    /\ students' = studentsAfterFailure(q)
    /\ toasts' = toasts + 1
    /\ loading' = FALSE
    /\ last' = [NoEvent EXCEPT !.kind = "error", !.id = q.id]
    /\ UNCHANGED <<teacherClassSections, filteredStudents, sortConfig, filters,
                   fetchCount, effectPending>>

\* Variant: the update replaces the filter set instead of merging into it.
mergeFiltersReplacing(prev, filterType, value) ==
    [InitialFilters EXCEPT ![filterType] = value]

\* lines 141-144: {...prev, [filterType]: value}
mergeFilters(prev, filterType, value) == [prev EXCEPT ![filterType] = value]

\* lines 140-145.  The widget that calls it is rendered only when loading is
\* false (lines 162-186); a pending effect runs before its event is handled.
handleFilterChange(filterType, value) ==
    /\ ~loading
    /\ ~effectPending
    /\ filters' = mergeFilters(filters, filterType, value)
    /\ effectPending' = effectDue({"filters"})
    /\ last' = [NoEvent EXCEPT !.kind = "filter", !.field = filterType,
                               !.value = value]
    /\ UNCHANGED <<teacherClassSections, students, filteredStudents, loading,
                   sortConfig, inflight, fetchCount, toasts>>

\* line 137: the configuration handleSortChange installs
newSortConfig(by, order) == [by |-> by, order |-> order]

\* lines 136-138, called by the same widget.
handleSortChange(by, order) ==
    /\ ~loading
    /\ ~effectPending
    /\ sortConfig' = newSortConfig(by, order)
    /\ effectPending' = effectDue({"sortConfig"})
    /\ last' = [NoEvent EXCEPT !.kind = "sort", !.field = by, !.value = {order}]
    /\ UNCHANGED <<teacherClassSections, students, filteredStudents, loading,
                   filters, inflight, fetchCount, toasts>>

\* lines 46-48 and 133: the pending effect runs applyFiltersAndSort on the
\* committed state and setFilteredStudents installs its result.
RunEffect ==
    /\ effectPending
    /\ filteredStudents' = applyFiltersAndSort(students, filters, sortConfig)
    /\ effectPending' = FALSE
    /\ UNCHANGED <<teacherClassSections, students, loading, sortConfig, filters,
                   inflight, fetchCount, toasts, last>>

\* The loader's specification: prop changes, query resolutions in any order,
\* and the widget's callbacks.
Next ==
    \/ LoadEmpty
    \/ \E sections \in SectionLists : LoadIssue(sections)
    \/ \E q \in inflight : \E data \in Responses(q.sections) : FetchSucceeds(q, data)
    \/ \E q \in inflight : FetchNoData(q)
    \/ \E q \in inflight : FetchFails(q)
    \/ \E field \in LoaderFilterFields : \E value \in LoaderFilterValues(field) :
          handleFilterChange(field, value)
    \/ \E by \in LoaderSortKeys : \E order \in SortOrders : handleSortChange(by, order)
    \/ RunEffect

Spec == Init /\ [][Next]_vars

(***************************************************************************)
(* The view's specification: the component after mount with both           *)
(* class-sections, a first successful query over any content of the table  *)
(* and its effect, then the widget's callbacks with every value it hands   *)
(* over, each followed by the effect.                                      *)
(***************************************************************************)
InitView ==
    /\ teacherClassSections = <<"10-A", "10-B">>
    /\ \E data \in AllTables :
          /\ students = studentsAfterSuccess(
                            [id |-> 1, sections |-> teacherClassSections,
                             students0 |-> <<>>, view0 |-> <<>>], data)
          /\ last = [NoEvent EXCEPT !.kind = "ok", !.id = 1, !.data = data]
    /\ filteredStudents = applyFiltersAndSort(students, InitialFilters, InitialSortConfig)
    /\ sortConfig = InitialSortConfig
    /\ filters = InitialFilters
    /\ loading = FALSE
    /\ inflight = {}
    /\ fetchCount = 1
    /\ toasts = 0
    /\ effectPending = FALSE

NextView ==
    \/ \E field \in FilterFields : \E value \in FilterValues(field) :
          handleFilterChange(field, value)
    \/ \E by \in SortKeys : \E order \in SortOrders : handleSortChange(by, order)
    \/ RunEffect

SpecView == InitView /\ [][NextView]_vars

(***************************************************************************)
(* Claims                                                                  *)
(***************************************************************************)

Occurrences(list, r) == Cardinality({ i \in 1..Len(list) : list[i] = r })

\* C1 as claimed: when a query issued by loadStudents fails, the record set
\* and the view are what they were when that query was issued, exactly one
\* notification is emitted, no query is issued, and the loading flag is false
\* afterwards.
C1_AsWhenIssued ==
    [][\A q \in inflight :
          (q \notin inflight' /\ last'.kind = "error" /\ last'.id = q.id)
          => /\ students' = q.students0
             /\ filteredStudents' = q.view0
             /\ toasts' = toasts + 1
             /\ fetchCount' = fetchCount
             /\ inflight' = inflight \ {q}
             /\ loading' = FALSE]_vars

\* C1 as amended: when a query issued by loadStudents fails, the record set
\* and the view are what they were just before the failure was handled,
\* exactly one notification is emitted, no query is issued, and the loading
\* flag is false afterwards.
C1_AsBeforeFailure ==
    [][\A q \in inflight :
          (q \notin inflight' /\ last'.kind = "error" /\ last'.id = q.id)
          => /\ students' = students
             /\ filteredStudents' = filteredStudents
             /\ toasts' = toasts + 1
             /\ fetchCount' = fetchCount
             /\ inflight' = inflight \ {q}
             /\ loading' = FALSE]_vars

\* A query has just failed after an earlier one had loaded records: they are
\* still there, one notification was emitted, loading is false.
C1_Witness ==
    /\ last.kind = "error"
    /\ last.id = 2
    /\ toasts = 1
    /\ ~loading
    /\ Len(students) = 4
    /\ Len(filteredStudents) = 4
    /\ inflight = {}

\* C2: whenever the loader runs with an empty class-section list, no query is
\* issued, no notification is emitted, the loading flag becomes false, and,
\* once no query is outstanding and no effect is pending, the record set and
\* the view are empty.
C2_EmptyListLeavesEmpty ==
    [][(last'.kind = "empty" /\ teacherClassSections' = <<>>)
          => /\ fetchCount' = fetchCount
             /\ toasts' = toasts
             /\ loading' = FALSE
             /\ (inflight' = {} /\ ~effectPending')
                   => (students' = <<>> /\ filteredStudents' = <<>>)]_vars

\* C3: in every reachable state with a query that has not resolved, the
\* loading flag is true.
C3_LoadingWhileInFlight == inflight # {} => loading

\* C4: the view the pipeline derived from the current record set and filter
\* set (no run of the effect is pending) holds, each exactly once, precisely
\* the loaded records that satisfy every filter field that is set and nothing
\* else (the predicates of the pipeline's
\* contract: class-section equal, percentage >= lower bound, percentage <=
\* upper bound, upper-cased name starting / ending with the filter string; an
\* undefined field and an empty string are no constraint);
\* with every field unset it is a permutation of the loaded set.
C4_Satisfies(r, f) ==
    /\ truthyLabel(f.classSection) => r.class_section \in f.classSection
    /\ \A lo \in f.percentageMin : r.latest_percentage >= lo
    /\ \A hi \in f.percentageMax : r.latest_percentage <= hi
    /\ \A p \in f.nameStartsWith :
          \E k \in 0..Len(r.name) :
              /\ k = Len(p)
              /\ \A i \in 1..k : upperChar(r.name[i]) = p[i]
    /\ \A p \in f.nameEndsWith :
          \E k \in 0..Len(r.name) :
              /\ k = Len(p)
              /\ \A i \in 1..k : upperChar(r.name[Len(r.name) - k + i]) = p[i]

C4_FilterExact ==
    ~effectPending =>
        /\ Range(filteredStudents) \subseteq Range(students)
        /\ \A r \in Range(students) :
              Occurrences(filteredStudents, r) = IF C4_Satisfies(r, filters) THEN 1 ELSE 0
        /\ filters = InitialFilters =>
              /\ Len(filteredStudents) = Len(students)
              /\ \A r \in Range(students) : Occurrences(filteredStudents, r) = 1

\* Two constraints are set together, some records pass both and some are dropped.
C4_Witness ==
    /\ last.kind = "filter"
    /\ ~effectPending
    /\ filters.percentageMin = {60}
    /\ filters.nameEndsWith = {<<65>>}
    /\ Len(students) = 4
    /\ Len(filteredStudents) = 1

\* C5: the view the pipeline derived under the active sort configuration (no
\* run of the effect is pending) is ordered by it: consecutive records a, b
\* have key(a) <= key(b) when ascending and key(a) >= key(b) when
\* descending, the key being the lower-cased name, the lower-cased admission
\* identifier or the percentage, and the percentage for any other sort key.
C5_KeyLess(a, b) ==
    IF sortConfig.by = "name"
    THEN strLess([i \in 1..Len(a.name) |-> lowerChar(a.name[i])],
                 [i \in 1..Len(b.name) |-> lowerChar(b.name[i])])
    ELSE IF sortConfig.by = "admission_id"
    THEN strLess([i \in 1..Len(a.admission_id) |-> lowerChar(a.admission_id[i])],
                 [i \in 1..Len(b.admission_id) |-> lowerChar(b.admission_id[i])])
    ELSE a.latest_percentage < b.latest_percentage

C5_Ordered ==
    ~effectPending =>
        \A i \in 1..(Len(filteredStudents) - 1) :
            LET a == filteredStudents[i]
                b == filteredStudents[i + 1]
            IN  IF sortConfig.order = "asc" THEN ~C5_KeyLess(b, a) ELSE ~C5_KeyLess(a, b)

\* All four records, ordered by an unrecognised key, ascending.
C5_Witness ==
    /\ last.kind = "sort"
    /\ ~effectPending
    /\ sortConfig.by = "rank"
    /\ sortConfig.order = "asc"
    /\ Len(filteredStudents) = 4
    /\ filteredStudents[1].latest_percentage = 0
    /\ filteredStudents[4].latest_percentage = 92

\* The name starts (ends) with the string when letter case is ignored.
C6_StartsIgnoringCase(name, p) ==
    /\ Len(p) <= Len(name)
    /\ \A i \in 1..Len(p) : upperChar(name[i]) = upperChar(p[i])

C6_EndsIgnoringCase(name, p) ==
    /\ Len(p) <= Len(name)
    /\ \A i \in 1..Len(p) : upperChar(name[Len(name) - Len(p) + i]) = upperChar(p[i])

\* The record passes the constraints that are not name constraints.
C6_PassesOthers(r) ==
    /\ truthyLabel(filters.classSection) => r.class_section \in filters.classSection
    /\ \A lo \in filters.percentageMin : r.latest_percentage >= lo
    /\ \A hi \in filters.percentageMax : r.latest_percentage <= hi

\* C6 as claimed: for every record and every non-empty prefix (suffix) string
\* handed to the filter-change callback, whatever the letter case of the name
\* and of the string, the record survives the name filters exactly when its
\* name starts (ends) with the string, letter case ignored.  (Stated for the
\* records that pass the constraints that are not name constraints, of the
\* view the pipeline derived from the current filter set.)
C6_CaseInsensitive ==
    ~effectPending =>
        \A r \in Range(students) :
            C6_PassesOthers(r) =>
                ( r \in Range(filteredStudents)
                  <=> /\ \A p \in filters.nameStartsWith : C6_StartsIgnoringCase(r.name, p)
                      /\ \A p \in filters.nameEndsWith : C6_EndsIgnoringCase(r.name, p) )

C6_NoLowerCase(opt) == \A p \in opt : \A i \in 1..Len(p) : ~(p[i] >= 97 /\ p[i] <= 122)

\* C6 as amended: the same for every prefix (suffix) string that holds no
\* lower-case letter, whatever the letter case of the record's name.
C6_CaseInsensitiveForUpperCaseFilter ==
    (C6_NoLowerCase(filters.nameStartsWith) /\ C6_NoLowerCase(filters.nameEndsWith))
        => C6_CaseInsensitive

\* Prefix "AL" keeps "Alice" and "alma" and drops "bob" and "Cara".
C6_Witness ==
    /\ last.kind = "filter"
    /\ ~effectPending
    /\ filters = [InitialFilters EXCEPT !.nameStartsWith = {<<65, 76>>}]
    /\ Len(students) = 4
    /\ { r.name : r \in Range(filteredStudents) }
         = { <<65, 108, 105, 99, 101>>, <<97, 108, 109, 97>> }

\* The row of the table a loaded record was fetched from.
C7_Fetched(r) == CHOOSE row \in Range(StudentsTable) : row.id = r.id

\* C7: every loaded record whose fetched percentage was absent, null or 0 has
\* percentage exactly 0 and every other record keeps its fetched percentage;
\* under the percentage-descending sort such a record comes after every record
\* of the view (as the pipeline derived it from the loaded records) whose
\* percentage is greater than 0.
C7_CoercedToZero ==
    /\ \A r \in Range(students) :
          LET p == C7_Fetched(r).latest_percentage
          IN  IF p = {} \/ p = {0} THEN r.latest_percentage = 0
              ELSE r.latest_percentage \in p
    /\ last.kind = "ok" =>
          /\ Len(students) = Len(last.data)
          /\ \A i \in 1..Len(students) :
                IF last.data[i].latest_percentage \in {{}, {0}}
                THEN students[i].latest_percentage = 0
                ELSE students[i].latest_percentage \in last.data[i].latest_percentage
    /\ (~effectPending /\ sortConfig = [by |-> "latest_percentage", order |-> "desc"]) =>
          \A i \in 1..Len(filteredStudents) : \A j \in 1..Len(filteredStudents) :
              ( /\ C7_Fetched(filteredStudents[i]).latest_percentage \in {{}, {0}}
                /\ filteredStudents[j].latest_percentage > 0 ) => j < i

\* A query has just succeeded with "alma", whose percentage is absent, first in
\* the response; the view lists her last.
C7_Witness ==
    /\ last.kind = "ok"
    /\ ~effectPending
    /\ Len(last.data) = 4
    /\ last.data[1].latest_percentage = {}
    /\ sortConfig = [by |-> "latest_percentage", order |-> "desc"]
    /\ Len(filteredStudents) = 4
    /\ filteredStudents[4].id = last.data[1].id
    /\ filteredStudents[4].latest_percentage = 0

\* C8: whenever no recomputation is pending, the view is the result of
\* applying the current filter set and then the current sort configuration to
\* the current record set, after any sequence of queries, filter changes and
\* sort changes.
C8_ViewIsCurrent ==
    ~effectPending =>
        filteredStudents = applyFiltersAndSort(students, filters, sortConfig)

\* After a failed and a successful query, a filter and a non-default sort
\* configuration are active and the view is a proper part of the record set.
C8_Witness ==
    /\ ~effectPending
    /\ toasts >= 1
    /\ Len(students) = 4
    /\ filters.classSection = {"10-A"}
    /\ sortConfig = [by |-> "name", order |-> "desc"]
    /\ Len(filteredStudents) = 2
    /\ last.kind = "sort"

\* C9: a prop change while a query is unresolved leaves that query in flight
\* beside the new one (nothing is cancelled), and the record set after a
\* successful resolution is the (coerced) response of the query that resolved
\* last, also when that query was issued before another that resolved earlier.
\* (A resolution with neither data nor an error carries no response and
\* installs nothing: FetchNoData.)
C9_LastResolvedWins ==
    [][/\ fetchCount' # fetchCount =>
             /\ inflight \subseteq inflight'
             /\ Cardinality(inflight') = Cardinality(inflight) + 1
       /\ \A q \in inflight :
             (q \notin inflight' /\ last'.kind = "ok" /\ last'.id = q.id)
             => /\ inflight' = inflight \ {q}
                /\ Len(students') = Len(last'.data)
                /\ \A i \in 1..Len(students') :
                      /\ students'[i].id = last'.data[i].id
                      /\ students'[i].name = last'.data[i].name
                      /\ students'[i].class_section = last'.data[i].class_section]_vars

\* Query 1 (for "10-A") resolved after query 2 (for both class-sections): both
\* succeeded, and the record set is query 1's response.
C9_Witness ==
    /\ fetchCount = 2
    /\ inflight = {}
    /\ toasts = 0
    /\ teacherClassSections = <<"10-A", "10-B">>
    /\ last.kind = "ok"
    /\ last.id = 1
    /\ Len(students) = 2
    /\ \A i \in 1..Len(students) : students[i].class_section = "10-A"

\* C10: a filter-field change (f, v) sets field f to v and leaves the other
\* filter fields, the sort configuration, the record set and the loading flag
\* as they were; a sort change installs key and direction together and leaves
\* the filter set and the record set as they were.
C10_Frame ==
    [][/\ last'.kind = "filter" =>
             /\ filters'[last'.field] = last'.value
             /\ \A g \in FilterFields \ {last'.field} : filters'[g] = filters[g]
             /\ sortConfig' = sortConfig
             /\ students' = students
             /\ loading' = loading
       /\ last'.kind = "sort" =>
             /\ sortConfig'.by = last'.field
             /\ {sortConfig'.order} = last'.value
             /\ DOMAIN sortConfig' = {"by", "order"}
             /\ filters' = filters
             /\ students' = students]_vars

\* An undefined value has just cleared one field while two others stay set
\* (the commit of the handler, before the effect).
C10_Witness ==
    /\ last.kind = "filter"
    /\ effectPending
    /\ last.field = "percentageMin"
    /\ last.value = {}
    /\ filters.percentageMin = {}
    /\ filters.classSection = {"10-A"}
    /\ filters.nameEndsWith = {<<65>>}
    /\ sortConfig = [by |-> "name", order |-> "asc"]
    /\ students # <<>>

====
